---- MODULE Spec2Model ----
(***************************************************************************)
(* Model of backtest/src/dashboard.py: one Streamlit script that loads     *)
(* four CSV files (load_backtest_data) and renders one pass of the         *)
(* dashboard, top to bottom.  An uncaught Python exception ends the pass.  *)
(*                                                                         *)
(* Numbers are fixed point, in thousandths; a missing value is NaN.        *)
(* A timeline row carries its timestamp (ts), its equity and its two       *)
(* flags; timestamps are strictly increasing within a file, as the         *)
(* renderer assumes.  The values of the other timeline columns (signal,    *)
(* price, qty, pnl, volume_usd) take no part in any control decision of    *)
(* the script, only their presence does: a file records its column set.    *)
(***************************************************************************)
EXTENDS Integers, Sequences, FiniteSets, TLC

VARIABLES
    summary_file,     \* ./results/performance_summary.csv
    timeline_files,   \* period -> ./results/timeline_<period>.csv
    pc,               \* position of the script
    error,            \* the exception that ended the pass, or "none"
    rendered,         \* the elements sent to the page so far, in order
    summary_df,       \* module-level summary_df
    timelines,        \* module-level timelines
    selected_period,
    timeline_df,
    period_summary,
    initial_capital,
    equity,
    cum_pnl,
    metrics_df,
    entries,          \* rows of the "Entries" marker trace
    exits,            \* rows of the "Exits" marker trace
    entries_exits,
    trade_log,
    available_cols,
    comparison_df,
    pass,             \* number of the running pass of the session
    prev              \* what the previous pass of the session ended with

vars == <<summary_file, timeline_files, pc, error, rendered, summary_df,
          timelines, selected_period, timeline_df, period_summary,
          initial_capital, equity, cum_pnl, metrics_df, entries_exits, entries,
          exits, trade_log, available_cols, comparison_df, pass, prev>>

inputs == <<summary_file, timeline_files>>

----------------------------------------------------------------------------
(* Bounds of the model *)

MaxRows == 2          \* rows of the timeline file under study
MaxSummaryRows == 3   \* rows of the summary file under study
MaxPasses == 2        \* passes of one session

----------------------------------------------------------------------------
(* Values *)

NaN == [isnan |-> TRUE, val |-> 0]
Num(v) == [isnan |-> FALSE, val |-> v]

\* x > 0 on a float column: NaN compares False
Gt0(x) == ~x.isnan /\ x.val > 0

\* float subtraction: NaN propagates
Sub(x, y) == IF x.isnan \/ y.isnan THEN NaN ELSE Num(x.val - y.val)

\* 10^n
RECURSIVE Pow10(_)
Pow10(n) == IF n = 0 THEN 1 ELSE 10 * Pow10(n - 1)

\* f"{x:.<dp>f}" and f"{x:,.<dp>f}": the number rounded to dp decimals
\* (ties to even), 'nan' for NaN; grouped records the thousands separator.
FormatFloat(x, dp, grouped) ==
    IF x.isnan THEN [nan |-> TRUE, scaled |-> 0, dp |-> dp, grouped |-> grouped]
    ELSE LET q == Pow10(3 - dp)
             f == x.val \div q
             r == x.val % q
             up == 2 * r > q \/ (2 * r = q /\ f % 2 = 1)
         IN [nan |-> FALSE, scaled |-> IF up THEN f + 1 ELSE f,
             dp |-> dp, grouped |-> grouped]

\* f"{n:,}" on an integer column
FormatInt(n) == [nan |-> FALSE, scaled |-> n, dp |-> 0, grouped |-> TRUE]

----------------------------------------------------------------------------
(* The script's tables *)

Periods == <<"last_month", "full_3mo", "prior_2mo">>
PeriodSet == {Periods[i] : i \in 1..Len(Periods)}

period_options ==
    ("Last Month" :> "last_month") @@ ("Full 3 Months" :> "full_3mo")
        @@ ("Prior 2 Months" :> "prior_2mo")

period_names ==
    ("last_month" :> "Last Month") @@ ("full_3mo" :> "Full 3 Months")
        @@ ("prior_2mo" :> "Prior 2 Months")

display_cols == <<"signal", "price", "qty", "pnl", "equity", "volume_usd",
                  "is_entry", "is_exit">>

\* the columns the backtest writes
TimelineCols == {display_cols[i] : i \in 1..Len(display_cols)}

\* summary columns read by the metrics table, in the order read
MetricsCols == <<"net_pnl", "total_return_pct", "sharpe_ratio",
                 "max_drawdown_pct", "win_rate_pct", "trades_per_year",
                 "avg_hold_hours", "total_volume_usd", "avg_daily_volume",
                 "avg_hourly_volume", "actual_trades", "signal_flips">>

SummaryCols == {"period", "start_date", "end_date", "rows", "initial_capital"}
                  \cup {MetricsCols[i] : i \in 1..Len(MetricsCols)}

----------------------------------------------------------------------------
(* Files and frames *)

AbsentFile == [present |-> FALSE, cols |-> {}, rows |-> <<>>]
File(cols, rows) == [present |-> TRUE, cols |-> cols, rows |-> rows]

Frame(cols, rows) == [cols |-> cols, rows |-> rows]
NoFrame == Frame({}, <<>>)
NoTimelines == [p \in {} |-> NoFrame]

Raise(kind) == [error |-> kind, summary_df |-> NoFrame, timelines |-> NoTimelines]
Return(s, t) == [error |-> "none", summary_df |-> s, timelines |-> t]

\* a summary row of period p; k fixes its numbers
SummaryRow(p, k) ==
    [period |-> p,
     initial_capital |-> Num(k),
     net_pnl |-> Num(1234 * k),
     total_return_pct |-> Num(1234 * k),
     sharpe_ratio |-> Num(617 * k),
     max_drawdown_pct |-> Num(0 - 4321 * k),
     win_rate_pct |-> Num(55270 * k),
     trades_per_year |-> Num(1200600 * k),
     avg_hold_hours |-> Num(3456 * k),
     total_volume_usd |-> Num(98765432 * k),
     avg_daily_volume |-> Num(109739369 * k),
     avg_hourly_volume |-> Num(4572474 * k),
     actual_trades |-> 1200 * k,
     signal_flips |-> 2400 * k]

NoRow == SummaryRow("", 0)

TimelineRow(ts, eq, en, ex) ==
    [ts |-> ts, equity |-> eq, is_entry |-> en, is_exit |-> ex]

----------------------------------------------------------------------------
(* load_backtest_data *)

\* (df["equity"] > 0).idxmax(): the label of the first row whose equity is
\* greater than zero; the label of the first row when there is none.
idxmax(rows) ==
    LET hits == {i \in 1..Len(rows) : Gt0(rows[i].equity)}
    IN IF hits = {} THEN rows[1].ts
       ELSE rows[CHOOSE i \in hits : \A j \in hits : i <= j].ts

\* bool(first_equity_idx): the label is a pandas Timestamp, which is truthy
\* whatever instant it names.
Truthy(label) == TRUE

\* loc_from with the slice starting after the label
loc_after(rows, label) == SelectSeq(rows, LAMBDA r : r.ts > label)

\* df.loc[label:] on an increasing index: the rows labelled label or later
loc_from(rows, label) == SelectSeq(rows, LAMBDA r : r.ts >= label)

\* load_timeline taking an absent file for a table with no rows and no columns
load_timeline_lenient(f) ==
    IF ~f.present THEN [error |-> "none", df |-> NoFrame]
    ELSE IF "equity" \notin f.cols THEN [error |-> "KeyError", df |-> NoFrame]
    ELSE IF f.rows = <<>> THEN [error |-> "ValueError", df |-> NoFrame]
    ELSE [error |-> "none",
          df |-> Frame(f.cols, loc_from(f.rows, idxmax(f.rows)))]

\* the body of the loop over the periods, for the file f of one period
load_timeline(f) ==
    IF ~f.present THEN [error |-> "FileNotFoundError", df |-> NoFrame]
    ELSE IF "equity" \notin f.cols THEN [error |-> "KeyError", df |-> NoFrame]
    ELSE IF f.rows = <<>> THEN [error |-> "ValueError", df |-> NoFrame]
    ELSE LET first_equity_idx == idxmax(f.rows)
         IN [error |-> "none",
             df |-> Frame(f.cols,
                          IF Truthy(first_equity_idx)
                          THEN loc_from(f.rows, first_equity_idx)
                          ELSE f.rows)]

\* the loop over the periods from the i-th on; acc is the dict built so far
RECURSIVE load_timelines(_, _, _, _)
load_timelines(s, tfs, i, acc) ==
    IF i > Len(Periods) THEN Return(s, acc)
    ELSE LET period == Periods[i]
             r == load_timeline(tfs[period])
         IN IF r.error # "none" THEN Raise(r.error)
            ELSE load_timelines(s, tfs, i + 1, (period :> r.df) @@ acc)

load_backtest_data(sf, tfs) ==
    IF ~sf.present THEN Raise("FileNotFoundError")
    ELSE IF "start_date" \notin sf.cols THEN Raise("KeyError")
    ELSE IF "end_date" \notin sf.cols THEN Raise("KeyError")
    ELSE load_timelines(Frame(sf.cols, sf.rows), tfs, 1, NoTimelines)

----------------------------------------------------------------------------
(* The derived series and tables of the module body *)

\* summary_df[summary_df["period"] == selected_period]
period_rows(df, p) == SelectSeq(df.rows, LAMBDA r : r.period = p)

\* ffill left out: the column as read
no_ffill(s) == s

\* Series.ffill(): a missing value takes the last value before it, if any
RECURSIVE ffill(_)
ffill(s) ==
    IF s = <<>> THEN <<>>
    ELSE LET n == Len(s)
             head == ffill(SubSeq(s, 1, n - 1))
         IN IF s[n].isnan /\ n > 1 THEN Append(head, head[n - 1])
            ELSE Append(head, s[n])

equity_column(df) == [i \in 1..Len(df.rows) |-> df.rows[i].equity]

cum_pnl_series(eq, ic) == [i \in 1..Len(eq) |-> Sub(eq[i], ic)]

Metric(name, value) == [Metric |-> name, Value |-> value]

metrics_data(ps) ==
    << Metric("Net PnL (USD)", FormatFloat(ps.net_pnl, 2, FALSE)),
       Metric("Total Return (%)", FormatFloat(ps.total_return_pct, 2, FALSE)),
       Metric("Sharpe Ratio", FormatFloat(ps.sharpe_ratio, 3, FALSE)),
       Metric("Max Drawdown (%)", FormatFloat(ps.max_drawdown_pct, 2, FALSE)),
       Metric("Win Rate (%)", FormatFloat(ps.win_rate_pct, 1, FALSE)),
       Metric("Trades Per Year", FormatFloat(ps.trades_per_year, 0, FALSE)),
       Metric("Avg Hold Time (hrs)", FormatFloat(ps.avg_hold_hours, 2, FALSE)),
       Metric("Total Volume (USD)", FormatFloat(ps.total_volume_usd, 0, TRUE)),
       Metric("Daily Volume (USD)", FormatFloat(ps.avg_daily_volume, 0, TRUE)),
       Metric("Hourly Volume (USD)", FormatFloat(ps.avg_hourly_volume, 0, TRUE)),
       Metric("Actual Trades", FormatInt(ps.actual_trades)),
       Metric("Signal Flips", FormatInt(ps.signal_flips)) >>

\* entries_exits_rows with the exit flag left out of the mask
entry_rows_only(df) == SelectSeq(df.rows, LAMBDA r : r.is_entry)

\* timeline_df[timeline_df["is_entry"] | timeline_df["is_exit"]]
entries_exits_rows(df) == SelectSeq(df.rows, LAMBDA r : r.is_entry \/ r.is_exit)

entries_rows(ee) == SelectSeq(ee, LAMBDA r : r.is_entry)

exits_rows(ee) == SelectSeq(ee, LAMBDA r : r.is_exit)

\* trade_log_rows with the flags combined by != instead of |
one_flag_rows(df) == SelectSeq(df.rows, LAMBDA r : r.is_exit # r.is_entry)

\* timeline_df[timeline_df["is_exit"] | timeline_df["is_entry"]]
trade_log_rows(df) == SelectSeq(df.rows, LAMBDA r : r.is_exit \/ r.is_entry)

\* [col for col in display_cols if col in trade_log.columns]
available(cols) == SelectSeq(display_cols, LAMBDA c : c \in cols)

comparison_row(row) ==
    [Period |-> period_names[row.period],
     Return |-> FormatFloat(row.total_return_pct, 2, FALSE),
     Sharpe |-> FormatFloat(row.sharpe_ratio, 3, FALSE),
     MaxDD |-> FormatFloat(row.max_drawdown_pct, 2, FALSE),
     WinRate |-> FormatFloat(row.win_rate_pct, 1, FALSE),
     TradesPerYear |-> FormatFloat(row.trades_per_year, 0, FALSE)]

\* comparison_data keeping the first row of each period only
comparison_data_distinct ==
    LET rows == summary_df.rows
        firsts == SelectSeq([i \in 1..Len(rows) |-> i],
                            LAMBDA i : \A j \in 1..(i - 1) : rows[j].period # rows[i].period)
    IN [n \in 1..Len(firsts) |-> comparison_row(rows[firsts[n]])]

\* comparison_data over the periods other than the selected one
comparison_data_others ==
    LET rows == SelectSeq(summary_df.rows, LAMBDA r : r.period # selected_period)
    IN [i \in 1..Len(rows) |-> comparison_row(rows[i])]

\* the loop over summary_df.iterrows()
comparison_data ==
    [i \in 1..Len(summary_df.rows) |-> comparison_row(summary_df.rows[i])]

\* whether the loop raises KeyError: a period that period_names lacks
comparison_raises ==
    \E i \in 1..Len(summary_df.rows) :
        summary_df.rows[i].period \notin DOMAIN period_names

----------------------------------------------------------------------------
(* One pass of the script *)

Range(s) == {s[i] : i \in 1..Len(s)}

NoPrev == [selected |-> "", reached |-> FALSE, comparison |-> <<>>]

\* the state in which a pass starts: nothing bound, nothing rendered
InitPass ==
    /\ pc = "start"
    /\ error = "none"
    /\ rendered = <<>>
    /\ summary_df = NoFrame
    /\ timelines = NoTimelines
    /\ selected_period = ""
    /\ timeline_df = NoFrame
    /\ period_summary = NoRow
    /\ initial_capital = NaN
    /\ equity = <<>>
    /\ cum_pnl = <<>>
    /\ metrics_df = <<>>
    /\ entries_exits = <<>>
    /\ entries = <<>>
    /\ exits = <<>>
    /\ trade_log = <<>>
    /\ available_cols = <<>>
    /\ comparison_df = <<>>

\* an uncaught exception ends the pass
Fail(kind) == pc' = "failed" /\ error' = kind

Goto(next) == pc' = next /\ error' = error

Emit(elements) == rendered' = rendered \o elements

\* lines 34-46: set_page_config, title, overview
Header ==
    /\ pc = "start"
    /\ Emit(<<"title", "overview">>)
    /\ Goto("load")
    /\ UNCHANGED <<inputs, summary_df, timelines, selected_period, timeline_df,
                   period_summary, initial_capital, equity, cum_pnl, metrics_df,
                   entries_exits, entries, exits, trade_log, available_cols,
                   comparison_df, pass, prev>>

\* line 48: summary_df, timelines = load_backtest_data()
Load ==
    /\ pc = "load"
    /\ LET r == load_backtest_data(summary_file, timeline_files)
       IN IF r.error = "none"
          THEN /\ summary_df' = r.summary_df
               /\ timelines' = r.timelines
               /\ Goto("select")
          ELSE /\ Fail(r.error)
               /\ UNCHANGED <<summary_df, timelines>>
    /\ UNCHANGED <<inputs, rendered, selected_period, timeline_df,
                   period_summary, initial_capital, equity, cum_pnl, metrics_df,
                   entries_exits, entries, exits, trade_log, available_cols,
                   comparison_df, pass, prev>>

\* lines 50-58: the selectbox returns the name the user picked
SelectPeriod ==
    /\ pc = "select"
    /\ \E selected_period_name \in DOMAIN period_options :
           selected_period' = period_options[selected_period_name]
    /\ Emit(<<"period_selector">>)
    /\ Goto("derive")
    /\ UNCHANGED <<inputs, summary_df, timelines, timeline_df, period_summary,
                   initial_capital, equity, cum_pnl, metrics_df, entries_exits,
                   entries, exits, trade_log, available_cols, comparison_df,
                   pass, prev>>

\* lines 60-67: the selected period's data and the derived series
Derive ==
    /\ pc = "derive"
    /\ timeline_df' = timelines[selected_period]
    /\ IF "period" \notin summary_df.cols
       THEN /\ Fail("KeyError")
            /\ UNCHANGED <<period_summary, initial_capital, equity, cum_pnl>>
       ELSE IF period_rows(summary_df, selected_period) = <<>>
       THEN /\ Fail("IndexError")
            /\ UNCHANGED <<period_summary, initial_capital, equity, cum_pnl>>
       ELSE /\ period_summary' = period_rows(summary_df, selected_period)[1]
            /\ IF "initial_capital" \notin summary_df.cols
               THEN /\ Fail("KeyError")
                    /\ UNCHANGED <<initial_capital, equity, cum_pnl>>
               ELSE /\ initial_capital' = period_summary'.initial_capital
                    /\ equity' = ffill(equity_column(timeline_df'))
                    /\ cum_pnl' = cum_pnl_series(equity', initial_capital')
                    /\ Goto("summary")
    /\ UNCHANGED <<inputs, rendered, summary_df, timelines, selected_period,
                   metrics_df, entries_exits, entries, exits, trade_log,
                   available_cols, comparison_df, pass, prev>>

\* lines 69-93: "Backtest Summary" and the metrics table
RenderSummary ==
    /\ pc = "summary"
    /\ IF "rows" \notin summary_df.cols
       THEN /\ Emit(<<"summary_header">>)
            /\ Fail("KeyError")
            /\ UNCHANGED metrics_df
       ELSE IF ~(Range(MetricsCols) \subseteq summary_df.cols)
       THEN /\ Emit(<<"summary_header", "summary_text">>)
            /\ Fail("KeyError")
            /\ UNCHANGED metrics_df
       ELSE /\ metrics_df' = metrics_data(period_summary)
            /\ Emit(<<"summary_header", "summary_text", "metrics_table">>)
            /\ Goto("equity")
    /\ UNCHANGED <<inputs, summary_df, timelines, selected_period, timeline_df,
                   period_summary, initial_capital, equity, cum_pnl,
                   entries_exits, entries, exits, trade_log, available_cols,
                   comparison_df, pass, prev>>

\* lines 95-129: the equity curve and the cumulative PnL chart
RenderEquity ==
    /\ pc = "equity"
    /\ Emit(<<"rule_equity", "equity_header", "equity_chart", "pnl_chart">>)
    /\ Goto("volume")
    /\ UNCHANGED <<inputs, summary_df, timelines, selected_period, timeline_df,
                   period_summary, initial_capital, equity, cum_pnl, metrics_df,
                   entries_exits, entries, exits, trade_log, available_cols,
                   comparison_df, pass, prev>>

\* RenderVolume that leaves the volume chart out when the column is missing
RenderVolumeIfPresent ==
    /\ pc = "volume"
    /\ IF "volume_usd" \notin timeline_df.cols
       THEN Emit(<<"rule_volume", "volume_header", "volatility_chart">>)
       ELSE Emit(<<"rule_volume", "volume_header", "daily_volume_chart",
                   "volatility_chart">>)
    /\ Goto("signals")
    /\ UNCHANGED <<inputs, summary_df, timelines, selected_period, timeline_df,
                   period_summary, initial_capital, equity, cum_pnl, metrics_df,
                   entries_exits, entries, exits, trade_log, available_cols,
                   comparison_df, pass, prev>>

\* lines 131-179: daily volume, percent change and rolling volatility
RenderVolume ==
    /\ pc = "volume"
    /\ IF "volume_usd" \notin timeline_df.cols
       THEN /\ Emit(<<"rule_volume", "volume_header">>)
            /\ Fail("KeyError")
       ELSE /\ Emit(<<"rule_volume", "volume_header", "daily_volume_chart",
                      "volatility_chart">>)
            /\ Goto("signals")
    /\ UNCHANGED <<inputs, summary_df, timelines, selected_period, timeline_df,
                   period_summary, initial_capital, equity, cum_pnl, metrics_df,
                   entries_exits, entries, exits, trade_log, available_cols,
                   comparison_df, pass, prev>>

\* lines 181-216: the signal chart
RenderSignals ==
    /\ pc = "signals"
    /\ IF "signal" \notin timeline_df.cols
       THEN /\ Emit(<<"rule_signals", "signals_header">>)
            /\ Fail("KeyError")
       ELSE /\ Emit(<<"rule_signals", "signals_header", "signals_chart">>)
            /\ Goto("markers")
    /\ UNCHANGED <<inputs, summary_df, timelines, selected_period, timeline_df,
                   period_summary, initial_capital, equity, cum_pnl, metrics_df,
                   entries_exits, entries, exits, trade_log, available_cols,
                   comparison_df, pass, prev>>

\* lines 218-254: the entry/exit marker chart
RenderMarkers ==
    /\ pc = "markers"
    /\ IF ~({"is_entry", "is_exit"} \subseteq timeline_df.cols)
       THEN /\ Fail("KeyError")
            /\ UNCHANGED <<rendered, entries_exits, entries, exits>>
       ELSE /\ entries_exits' = entries_exits_rows(timeline_df)
            /\ IF entries_exits' # <<>>
               THEN /\ entries' = entries_rows(entries_exits')
                    /\ exits' = exits_rows(entries_exits')
                    /\ Emit(<<"trades_chart">>)
               ELSE UNCHANGED <<rendered, entries, exits>>
            /\ Goto("tradelog")
    /\ UNCHANGED <<inputs, summary_df, timelines, selected_period, timeline_df,
                   period_summary, initial_capital, equity, cum_pnl, metrics_df,
                   trade_log, available_cols, comparison_df, pass, prev>>

\* the comparison table placed where the trade log belongs
RenderComparisonFirst ==
    /\ pc = "tradelog"
    /\ comparison_df' = comparison_data
    /\ Emit(<<"rule_comparison", "comparison_header", "comparison_table">>)
    /\ Goto("footer")
    /\ UNCHANGED <<inputs, summary_df, timelines, selected_period, timeline_df,
                   period_summary, initial_capital, equity, cum_pnl, metrics_df,
                   entries_exits, entries, exits, trade_log, available_cols,
                   pass, prev>>

\* lines 256-286: the trade log and the signal distribution, or the notice
RenderTradeLog ==
    /\ pc = "tradelog"
    /\ trade_log' = trade_log_rows(timeline_df)
    /\ IF trade_log' # <<>>
       THEN /\ available_cols' = available(timeline_df.cols)
            /\ IF "signal" \in timeline_df.cols
               THEN Emit(<<"rule_trades", "trades_header", "trade_log_table",
                           "signal_dist_label", "signal_dist_table">>)
               ELSE Emit(<<"rule_trades", "trades_header", "trade_log_table">>)
       ELSE /\ Emit(<<"rule_trades", "trades_header", "no_trades_notice">>)
            /\ UNCHANGED available_cols
    /\ Goto("comparison")
    /\ UNCHANGED <<inputs, summary_df, timelines, selected_period, timeline_df,
                   period_summary, initial_capital, equity, cum_pnl, metrics_df,
                   entries_exits, entries, exits, comparison_df, pass, prev>>

\* lines 288-312: the comparison across periods
RenderComparison ==
    /\ pc = "comparison"
    /\ IF comparison_raises
       THEN /\ Emit(<<"rule_comparison", "comparison_header">>)
            /\ Fail("KeyError")
            /\ UNCHANGED comparison_df
       ELSE /\ comparison_df' = comparison_data
            /\ Emit(<<"rule_comparison", "comparison_header",
                      "comparison_table">>)
            /\ Goto("footer")
    /\ UNCHANGED <<inputs, summary_df, timelines, selected_period, timeline_df,
                   period_summary, initial_capital, equity, cum_pnl, metrics_df,
                   entries_exits, entries, exits, trade_log, available_cols,
                   pass, prev>>

\* lines 314-319: the closing note
Footer ==
    /\ pc = "footer"
    /\ Emit(<<"footer">>)
    /\ Goto("done")
    /\ UNCHANGED <<inputs, summary_df, timelines, selected_period, timeline_df,
                   period_summary, initial_capital, equity, cum_pnl, metrics_df,
                   entries_exits, entries, exits, trade_log, available_cols,
                   comparison_df, pass, prev>>

\* The session runs the script again, from the top, when the user acts on
\* the page: a new pass over the same files.
Rerun ==
    /\ pc \in {"done", "failed"}
    /\ pass < MaxPasses
    /\ pass' = pass + 1
    /\ prev' = [selected |-> selected_period,
                reached |-> "comparison_table" \in Range(rendered),
                comparison |-> comparison_df]
    /\ pc' = "start"
    /\ error' = "none"
    /\ rendered' = <<>>
    /\ summary_df' = NoFrame
    /\ timelines' = NoTimelines
    /\ selected_period' = ""
    /\ timeline_df' = NoFrame
    /\ period_summary' = NoRow
    /\ initial_capital' = NaN
    /\ equity' = <<>>
    /\ cum_pnl' = <<>>
    /\ metrics_df' = <<>>
    /\ entries_exits' = <<>>
    /\ entries' = <<>>
    /\ exits' = <<>>
    /\ trade_log' = <<>>
    /\ available_cols' = <<>>
    /\ comparison_df' = <<>>
    /\ UNCHANGED inputs

NextPass ==
    \/ Header
    \/ Load
    \/ SelectPeriod
    \/ Derive
    \/ RenderSummary
    \/ RenderEquity
    \/ RenderVolume
    \/ RenderSignals
    \/ RenderMarkers
    \/ RenderTradeLog
    \/ RenderComparison
    \/ Footer

Next == NextPass \/ Rerun

----------------------------------------------------------------------------
(* The result files a session may find *)

EquityVals == {NaN, Num(0 - 1), Num(0), Num(1)}

\* the timeline the backtest wrote for a period: a warm-up row and an entry;
\* an entry and an exit; a warm-up row and no trade
StdRows(p) ==
    CASE p = "last_month" ->
             << TimelineRow(1, Num(0), FALSE, FALSE),
                TimelineRow(2, Num(1), TRUE, FALSE) >>
      [] p = "full_3mo" ->
             << TimelineRow(1, Num(1), TRUE, FALSE),
                TimelineRow(2, Num(1), FALSE, TRUE) >>
      [] OTHER ->
             << TimelineRow(1, Num(0), FALSE, FALSE),
                TimelineRow(2, Num(1), FALSE, FALSE) >>

StdTimeline(p) == File(TimelineCols, StdRows(p))

\* one row per period
StdSummary == << SummaryRow("last_month", 1), SummaryRow("full_3mo", 2),
                 SummaryRow("prior_2mo", 1) >>

\* every timeline of at most MaxRows rows
TimelineRowSeqs ==
    UNION { { [i \in 1..n |-> TimelineRow(i, c[i][1], c[i][2], c[i][3])] :
                c \in [1..n -> EquityVals \X BOOLEAN \X BOOLEAN] } :
            n \in 0..MaxRows }

\* a timeline file that is absent, lacks one column, or has no rows
TimelineFileDefects(p) ==
    {AbsentFile}
        \cup {File(TimelineCols \ {c}, StdRows(p)) : c \in TimelineCols}
        \cup {File(TimelineCols, <<>>), StdTimeline(p)}

\* a summary file that is absent or lacks one column
SummaryFileDefects ==
    {AbsentFile}
        \cup {File(SummaryCols \ {c}, StdSummary) : c \in SummaryCols}
        \cup {File(SummaryCols, StdSummary)}

\* every summary of at most MaxSummaryRows rows, over the three periods and
\* one period the dashboard does not know
SummaryRowVals == {SummaryRow(p, k) : p \in PeriodSet \cup {"ytd"}, k \in 1..2}

SummaryRowSeqs == UNION { [1..n -> SummaryRowVals] : n \in 0..MaxSummaryRows }

\* the summary with two rows for period p: numbers k first, the others last
TwoRowSummary(p, k) ==
    [i \in 1..Len(StdSummary) |->
        IF StdSummary[i].period = p THEN SummaryRow(p, k) ELSE StdSummary[i]]
        \o << SummaryRow(p, 3 - k) >>

InitSession == InitPass /\ pass = 1 /\ prev = NoPrev

\* any of the four files may be absent or defective
InitFiles ==
    /\ summary_file \in SummaryFileDefects
    /\ \E a \in TimelineFileDefects("last_month"),
          b \in TimelineFileDefects("full_3mo"),
          c \in TimelineFileDefects("prior_2mo") :
          timeline_files =
              ("last_month" :> a) @@ ("full_3mo" :> b) @@ ("prior_2mo" :> c)
    /\ InitSession

\* one period's timeline is any timeline of at most MaxRows rows
InitTimeline ==
    /\ \E focus \in PeriodSet, k \in 1..2, rows \in TimelineRowSeqs :
          /\ summary_file = File(SummaryCols, TwoRowSummary(focus, k))
          /\ timeline_files =
                 [p \in PeriodSet |->
                     IF p = focus THEN File(TimelineCols, rows)
                     ELSE StdTimeline(p)]
    /\ InitSession

\* the summary is any summary of at most MaxSummaryRows rows
InitSummary ==
    /\ summary_file \in {File(SummaryCols, rows) : rows \in SummaryRowSeqs}
    /\ timeline_files = [p \in PeriodSet |-> StdTimeline(p)]
    /\ InitSession

Init == InitFiles \/ InitTimeline \/ InitSummary

SpecFiles == InitFiles /\ [][NextPass]_vars

SpecTimeline == InitTimeline /\ [][NextPass]_vars

SpecSummary == InitSummary /\ [][Next]_vars

Spec == Init /\ [][Next]_vars

----------------------------------------------------------------------------
(* What a pass has done so far *)

\* the elements of the page, in the order of the script
ScriptOrder ==
    << "title", "overview", "period_selector", "summary_header",
       "summary_text", "metrics_table", "rule_equity", "equity_header",
       "equity_chart", "pnl_chart", "rule_volume", "volume_header",
       "daily_volume_chart", "volatility_chart", "rule_signals",
       "signals_header", "signals_chart", "trades_chart", "rule_trades",
       "trades_header", "trade_log_table", "signal_dist_label",
       "signal_dist_table", "no_trades_notice", "rule_comparison",
       "comparison_header", "comparison_table", "footer" >>

Shown(e) == e \in Range(rendered)

\* load_backtest_data has returned
LoadReturned == pc \notin {"start", "load"} /\ (pc = "failed" => Shown("period_selector"))

\* load_backtest_data has raised
LoadFailed == pc = "failed" /\ ~Shown("period_selector")

\* lines 60-67 have run to their end
Derived ==
    /\ pc \notin {"start", "load", "select", "derive"}
    /\ pc = "failed" => Shown("summary_header")

RawRows(p) == timeline_files[p].rows

Positive(rows) == {i \in 1..Len(rows) : rows[i].equity.val > 0 /\ ~rows[i].equity.isnan}

First(S) == CHOOSE i \in S : \A j \in S : i <= j

Last(S) == CHOOSE i \in S : \A j \in S : j <= i

Suffix(rows, k) == SubSeq(rows, k, Len(rows))

\* the length of the leading run of rows whose equity is zero
LeadingZeros(rows) ==
    Last({k \in 0..Len(rows) : \A i \in 1..k : rows[i].equity = Num(0)})

----------------------------------------------------------------------------
(* C1: for every period timeline that load_backtest_data returns, no row of
   the file's leading run of zero-equity rows is kept, and the first kept
   row's equity is not zero. *)
C1_TrimRemovesLeadingZeros ==
    LoadReturned =>
        \A p \in PeriodSet :
            /\ \A i \in 1..LeadingZeros(RawRows(p)) :
                   RawRows(p)[i] \notin Range(timelines[p].rows)
            /\ timelines[p].rows # <<>> =>
                   timelines[p].rows[1].equity # Num(0)

(* C8: the timeline returned for a period is a suffix of the file's rows,
   unchanged and in order; it starts at the first row whose equity is
   greater than zero (the later rows are kept whatever their equity), and
   is the whole file when the first row is such a row, or when no row is. *)
C8_TrimDropsOnlyALeadingPrefix ==
    LoadReturned =>
        \A p \in PeriodSet :
            LET raw == RawRows(p)
                out == timelines[p].rows
            IN /\ \E k \in 1..Len(raw) : out = Suffix(raw, k)
               /\ Positive(raw) # {} => out = Suffix(raw, First(Positive(raw)))
               /\ 1 \in Positive(raw) => out = raw
               /\ Positive(raw) = {} => out = raw

\* a period whose warm-up row was dropped, and a period that keeps a later
\* row whose equity is not positive
C8_Witness ==
    /\ LoadReturned
    /\ \E p \in PeriodSet :
           /\ Len(timelines[p].rows) < Len(RawRows(p))
           /\ timelines[p].rows[1].equity.val > 0
    /\ \E p \in PeriodSet :
           /\ 1 \in Positive(RawRows(p))
           /\ Len(timelines[p].rows) = 2
           /\ timelines[p].rows[2].equity \in {Num(0), NaN}

----------------------------------------------------------------------------
\* the summary rows of period p, as the file has them
FileRowsOf(p) == {i \in 1..Len(summary_file.rows) : summary_file.rows[i].period = p}

\* the last equity that is not missing, at row i or before it, if any
LastKnownEquity(rows, i) ==
    LET known == {j \in 1..i : ~rows[j].equity.isnan}
    IN IF known = {} THEN NaN ELSE rows[Last(known)].equity

(* C2 as stated: at every row of the selected (trimmed) timeline, cumulative
   PnL is the row's equity minus the initial capital of a summary row of
   the selected period. *)
C2_CumPnlIsEquityMinusCapital ==
    Derived =>
        \E k \in FileRowsOf(selected_period) :
            \A i \in 1..Len(timeline_df.rows) :
                cum_pnl[i] = Sub(timeline_df.rows[i].equity,
                                 summary_file.rows[k].initial_capital)

(* C2, amended: at every row of the selected (trimmed) timeline, cumulative
   PnL is the forward-filled equity (the row's equity, or the last equity
   before it that is not missing) minus the initial capital of the first
   summary row of the selected period; so it is the row's equity minus the
   initial capital wherever the row's equity is present. *)
C2_CumPnlIsFilledEquityMinusCapital ==
    Derived =>
        LET rows == timelines[selected_period].rows
            ic == summary_file.rows[First(FileRowsOf(selected_period))].initial_capital
        IN /\ DOMAIN cum_pnl = 1..Len(rows)
           /\ \A i \in 1..Len(rows) :
                  /\ cum_pnl[i] = Sub(LastKnownEquity(rows, i), ic)
                  /\ ~rows[i].equity.isnan => cum_pnl[i] = Sub(rows[i].equity, ic)

\* a row whose equity is missing and whose cumulative PnL is a number
C2_Witness ==
    /\ Derived
    /\ \E i \in 1..Len(timeline_df.rows) :
           timeline_df.rows[i].equity.isnan /\ ~cum_pnl[i].isnan

----------------------------------------------------------------------------
\* the rows of the selected (trimmed) timeline with a flag set
Flagged == {r \in Range(timelines[selected_period].rows) : r.is_entry \/ r.is_exit}

\* lines 256-286 have run
TradeSectionDone == Shown("trades_header")

(* C6: the trade log holds exactly the rows of the selected timeline with
   is_entry or is_exit set, each once and in timeline order; a row with
   both flags is one row of the trade log, and is among the entries markers
   and among the exits markers. *)
C6_TradeLogIsTheFlaggedRows ==
    TradeSectionDone =>
        /\ Range(trade_log) = Flagged
        /\ Len(trade_log) = Cardinality(Flagged)
        /\ \A i, j \in 1..Len(trade_log) : i < j => trade_log[i].ts < trade_log[j].ts
        /\ Flagged # {} =>
               /\ Range(entries) = {r \in Flagged : r.is_entry}
               /\ Range(exits) = {r \in Flagged : r.is_exit}
               /\ \A r \in Flagged :
                      r.is_entry /\ r.is_exit =>
                          /\ r \in Range(entries) /\ r \in Range(exits)
                          /\ Cardinality({i \in 1..Len(trade_log) : trade_log[i] = r}) = 1

\* a trade log of two rows, one of them an entry and an exit at once
C6_Witness ==
    /\ TradeSectionDone
    /\ Len(trade_log) = 2
    /\ \E r \in Range(trade_log) : r.is_entry /\ r.is_exit
    /\ \E r \in Range(trade_log) : ~(r.is_entry /\ r.is_exit)

(* C10: a completed pass shows either the trade log table and the marker
   chart and no notice, when the selected timeline has a row with is_entry
   or is_exit set, or the notice and none of the trade log table, the
   signal distribution table and the marker chart, when it has none. *)
C10_TradeLogOrNotice ==
    pc = "done" =>
        IF Flagged # {}
        THEN /\ Shown("trade_log_table")
             /\ Shown("trades_chart")
             /\ ~Shown("no_trades_notice")
        ELSE /\ Shown("no_trades_notice")
             /\ ~Shown("trade_log_table")
             /\ ~Shown("signal_dist_table")
             /\ ~Shown("trades_chart")

\* a completed pass over a timeline whose only flagged row was trimmed away
C10_Witness ==
    /\ pc = "done"
    /\ Shown("no_trades_notice")
    /\ \E r \in Range(RawRows(selected_period)) : r.is_exit
    /\ Flagged = {}

----------------------------------------------------------------------------
SummaryPeriods == {r.period : r \in Range(summary_file.rows)}

RowsNamed(name) == {i \in 1..Len(comparison_df) : comparison_df[i].Period = name}

(* C3 as stated: after a completed pass the comparison table has exactly
   one row per distinct period of the summary table. *)
C3_OneRowPerDistinctPeriod ==
    pc = "done" =>
        /\ Len(comparison_df) = Cardinality(SummaryPeriods)
        /\ \A p \in SummaryPeriods : Cardinality(RowsNamed(period_names[p])) = 1

(* C3, amended: after a completed pass the comparison table has exactly one
   row per row of the summary table, in the summary's order, so a period
   the summary repeats is repeated in the table; it has exactly one row per
   distinct period when no period is repeated in the summary. *)
C3_OneRowPerSummaryRow ==
    pc = "done" =>
        /\ Len(comparison_df) = Len(summary_file.rows)
        /\ \A i \in 1..Len(comparison_df) :
               comparison_df[i].Period = period_names[summary_file.rows[i].period]
        /\ Cardinality(SummaryPeriods) = Len(summary_file.rows) =>
               \A p \in SummaryPeriods : Cardinality(RowsNamed(period_names[p])) = 1

\* a completed pass over a summary that repeats a period
C3_Witness ==
    /\ pc = "done"
    /\ Len(comparison_df) = 3
    /\ Cardinality(SummaryPeriods) = 2

(* C9: two passes of a session over the same files that both reach the
   comparison step show the same comparison table, whichever periods were
   selected; the summary row, the timeline and the trade log of a pass are
   those of its selected period. *)
C9_ComparisonIgnoresSelection ==
    /\ prev.reached /\ Shown("comparison_table") => comparison_df = prev.comparison
    /\ Derived =>
           /\ period_summary.period = selected_period
           /\ period_summary \in Range(summary_file.rows)
           /\ timeline_df.rows = timelines[selected_period].rows
    /\ TradeSectionDone =>
           Range(trade_log) \subseteq Range(RawRows(selected_period))

\* a second pass that selected another period and reached the comparison
C9_Witness ==
    /\ prev.reached
    /\ Shown("comparison_table")
    /\ prev.selected # selected_period
    /\ Len(comparison_df) > 1

----------------------------------------------------------------------------
\* what load_backtest_data meets in a file, read on its own
SummaryProblem ==
    IF ~summary_file.present THEN "FileNotFoundError"
    ELSE IF ~({"start_date", "end_date"} \subseteq summary_file.cols) THEN "KeyError"
    ELSE "none"

TimelineProblem(p) ==
    IF ~timeline_files[p].present THEN "FileNotFoundError"
    ELSE IF "equity" \notin timeline_files[p].cols THEN "KeyError"
    ELSE IF Len(timeline_files[p].rows) = 0 THEN "ValueError"
    ELSE "none"

\* the files in the order the loader reads them: 0 is the summary
ProblemAt(n) == IF n = 0 THEN SummaryProblem ELSE TimelineProblem(Periods[n])

Troubled == {n \in 0..Len(Periods) : ProblemAt(n) # "none"}

AnyAbsent ==
    ~summary_file.present \/ \E p \in PeriodSet : ~timeline_files[p].present

NoPartialResult == summary_df = NoFrame /\ timelines = NoTimelines

Trimmed(p) ==
    LET raw == RawRows(p)
    IN timelines[p].rows =
           IF Positive(raw) = {} THEN raw ELSE Suffix(raw, First(Positive(raw)))

ReturnedAll ==
    /\ LoadReturned
    /\ summary_df.rows = summary_file.rows
    /\ DOMAIN timelines = PeriodSet
    /\ \A p \in PeriodSet : Trimmed(p)

(* C4 as stated: load_backtest_data fails with the not-found condition and
   no partial result when any of the four files is absent; when all four
   are present it returns the summary and a trimmed timeline for each of
   exactly the three periods. *)
C4_NotFoundOrAllReturned ==
    pc \notin {"start", "load"} =>
        IF AnyAbsent
        THEN LoadFailed /\ error = "FileNotFoundError" /\ NoPartialResult
        ELSE ReturnedAll

(* C4, amended: load_backtest_data fails, with no partial result, when any
   of the four files is absent; the failure is the not-found condition
   unless a file read before the first absent one is defective, and then it
   is that file's error (KeyError for a summary without start_date or
   end_date or a timeline without equity, ValueError for a timeline without
   rows).  When all four are present it fails with the first defective
   file's error, and when none is defective it returns the summary and a
   trimmed timeline for each of exactly the three periods. *)
C4_FirstProblemOrAllReturned ==
    pc \notin {"start", "load"} =>
        /\ AnyAbsent => LoadFailed /\ NoPartialResult
        /\ IF Troubled # {}
           THEN LoadFailed /\ NoPartialResult /\ error = ProblemAt(First(Troubled))
           ELSE ReturnedAll

\* the last file read is the only absent one: the load fails, not found
C4_Witness ==
    /\ LoadFailed
    /\ error = "FileNotFoundError"
    /\ Troubled = {3}
    /\ NoPartialResult

----------------------------------------------------------------------------
Pos(e) == CHOOSE n \in 1..Len(ScriptOrder) : ScriptOrder[n] = e

\* nothing that the script shows from element e on is on the page
NothingFrom(e) == \A x \in Range(rendered) : Pos(x) < Pos(e)

\* the first element the script shows after it reads a summary column
AfterSummaryCol(c) ==
    CASE c \in {"start_date", "end_date"} -> "period_selector"
      [] c \in {"period", "initial_capital"} -> "summary_header"
      [] c = "rows" -> "summary_text"
      [] OTHER -> "metrics_table"

\* the first element the script shows after it reads a timeline column
AfterTimelineCol(c) ==
    CASE c = "equity" -> "period_selector"
      [] c = "volume_usd" -> "daily_volume_chart"
      [] c = "signal" -> "signals_chart"
      [] OTHER -> "trades_chart"

OptionalCols == {"price", "qty", "pnl"}

MissingIn(f, cols) == IF f.present THEN cols \ f.cols ELSE {}

(* C5 as stated: a column missing from the summary or from a timeline
   (equity, volume_usd, signal, price, qty, pnl, is_entry, is_exit) ends
   the pass with an uncaught error: the pass does not complete. *)
C5_AnyMissingColumnIsFatal ==
    (MissingIn(summary_file, SummaryCols) # {}
        \/ \E p \in PeriodSet : MissingIn(timeline_files[p], TimelineCols) # {})
        => pc # "done"

(* C5, amended: a column missing from the summary, an equity column missing
   from any of the three timelines, or a volume_usd, signal, is_entry or
   is_exit column missing from the selected period's timeline, ends the
   pass with an uncaught error at the point where the column is read:
   nothing the script shows after that point is shown, no step follows and
   none is retried, and no element other than the script's own is shown.
   A missing price, qty or pnl column, and a missing column of a timeline
   that is not selected, are not errors: a pass fails only for an absent
   file, a timeline without rows, or a missing column named above. *)
C5_MissingReadColumnIsFatal ==
    /\ \A c \in MissingIn(summary_file, SummaryCols) : NothingFrom(AfterSummaryCol(c))
    /\ \A p \in PeriodSet :
           "equity" \in MissingIn(timeline_files[p], TimelineCols) =>
               NothingFrom("period_selector")
    /\ selected_period \in PeriodSet =>
           \A c \in MissingIn(timeline_files[selected_period],
                              TimelineCols \ OptionalCols) :
               NothingFrom(AfterTimelineCol(c))
    /\ pc = "failed" =>
           /\ error # "none"
           /\ ~ENABLED NextPass
           /\ \/ Troubled # {}
              \/ MissingIn(summary_file, SummaryCols) # {}
              \/ /\ selected_period \in PeriodSet
                 /\ MissingIn(timeline_files[selected_period],
                              TimelineCols \ OptionalCols) # {}
    /\ Range(rendered) \subseteq Range(ScriptOrder)

\* the selected timeline lacks volume_usd: the pass ended at the volume chart
C5_Witness ==
    /\ pc = "failed"
    /\ error = "KeyError"
    /\ selected_period \in PeriodSet
    /\ "volume_usd" \notin timeline_files[selected_period].cols
    /\ rendered[Len(rendered)] = "volume_header"

----------------------------------------------------------------------------
Tables == {"metrics_table", "trade_log_table", "signal_dist_table",
           "comparison_table"}

PeriodCharts == {"equity_chart", "pnl_chart", "daily_volume_chart",
                 "volatility_chart", "signals_chart"}

(* C7: in a pass the elements appear in the order of the script; the period
   selector is offered only once all four files are loaded; the selected
   period's data and series exist only once a period is selected; the
   comparison table comes after the selected period's tables and charts
   and is the last table; after a failure no step is taken; a completed
   pass has shown the comparison table and ends with the closing note. *)
C7_StepsInOrder ==
    /\ \A i, j \in 1..Len(rendered) : i < j => Pos(rendered[i]) < Pos(rendered[j])
    /\ Shown("period_selector") =>
           /\ ~AnyAbsent
           /\ summary_df.rows = summary_file.rows
           /\ DOMAIN timelines = PeriodSet
    /\ (timeline_df # NoFrame \/ equity # <<>> \/ cum_pnl # <<>>) =>
           selected_period \in PeriodSet /\ Shown("period_selector")
    /\ Shown("comparison_table") =>
           /\ Shown("metrics_table")
           /\ \A c \in PeriodCharts : Shown(c)
           /\ Shown("trade_log_table") \/ Shown("no_trades_notice")
           /\ \A n \in 1..Len(rendered) :
                  rendered[n] \in Tables =>
                      \A m \in 1..Len(rendered) :
                          rendered[m] = "comparison_table" => n <= m
    /\ pc = "failed" => ~ENABLED NextPass
    /\ pc = "done" =>
           Shown("comparison_table") /\ rendered[Len(rendered)] = "footer"

\* a completed pass that showed the trade log and then the comparison
C7_Witness ==
    /\ pc = "done"
    /\ Shown("trade_log_table")
    /\ Shown("comparison_table")

====
